---- MODULE Spec2Model ----
(***************************************************************************)
(* Model of testers/rust-tester/src/pdre_api/utils/mod.rs: the CallWasm    *)
(* parameter encoder (gen_params) and the return decoders (return_none,    *)
(* return_none_write_buffer, return_value_no_buffer,                       *)
(* return_value_write_buffer, return_buffer).                              *)
(*                                                                         *)
(* TLC integers are 32-bit signed, so a Rust u32 is carried as two 16-bit  *)
(* halves [hi, lo] (value hi * 2^16 + lo) and a Rust i32 as an integer.    *)
(* The casts `as u32` / `as i32` convert between the two.                  *)
(***************************************************************************)
EXTENDS Integers, Sequences, FiniteSets, TLC

\* ---------------------------------------------------------------- bounds
MaxBufs == 3            \* longest buffer list handed to gen_params
MemSize == 6            \* bytes of guest linear memory

\* ---------------------------------------------------------------- values
Half == 2^16
Byte == {0, 1, 2}       \* byte values the guest leaves in memory

U32(hi, lo) == [hi |-> hi, lo |-> lo]

\* a small natural number (usize) as u32 / as the usize a u32 widens to
U32FromNat(n) == U32(n \div Half, n % Half)

\* `x as i32` for x : u32 (line 111)
U32AsI32(u) ==
    IF u.hi < Half \div 2 THEN u.hi * Half + u.lo
                          ELSE (u.hi - Half) * Half + u.lo

\* `r as u32` for r : i32 (lines 147, 169, 194)
I32AsU32(r) ==
    IF r >= 0 THEN U32(r \div Half, r % Half)
              ELSE U32(Half + (r \div Half), r % Half)

\* `len() as i32` for a usize length (line 114)
UsizeAsI32(n) == U32AsI32(U32FromNat(n))

\* variant: the 4 bytes taken most significant first
U32FromBeBytes(b) == U32(b[2] + 256 * b[1], b[4] + 256 * b[3])

\* u32::from_le_bytes on a 4-byte slice (line 183)
U32FromLeBytes(b) == U32(b[3] + 256 * b[4], b[1] + 256 * b[2])

\* RuntimeValue and Option<RuntimeValue>
I32(v) == [ty |-> "I32", v |-> v]
NoValue == [ty |-> "None", v |-> 0]

\* Result<Option<R>, Error> of a decoder, plus the panic an unwrap() raises
Pending == [kind |-> "Pending", scalar |-> U32(0, 0), buf |-> <<>>]
OkUnit == [kind |-> "Some", scalar |-> U32(0, 0), buf |-> <<>>]
OkScalar(u) == [kind |-> "Some", scalar |-> u, buf |-> <<>>]
OkBuf(b) == [kind |-> "Some", scalar |-> U32(0, 0), buf |-> b]
OkNone == [kind |-> "None", scalar |-> U32(0, 0), buf |-> <<>>]
ErrRuntime == [kind |-> "Runtime", scalar |-> U32(0, 0), buf |-> <<>>]
Panic == [kind |-> "Panic", scalar |-> U32(0, 0), buf |-> <<>>]

\* MemoryRef::get(offset: u32, size: usize): bounds-checked read
MemGet(mem, off, len) ==
    IF off.hi = 0 /\ len.hi = 0 /\ off.lo + len.lo <= Len(mem)
    THEN [ok |-> TRUE, bytes |-> SubSeq(mem, off.lo + 1, off.lo + len.lo)]
    ELSE [ok |-> FALSE, bytes |-> <<>>]

Rd(off, len) == [off |-> off, len |-> len]
Ev(cell, op, phase) == [cell |-> cell, op |-> op, phase |-> phase]

\* ---------------------------------------------------------------- state
VARIABLES
    pc,           \* "start", "encoded", "encode_err", "returned", "done"
    data,         \* gen_params: data (list of byte buffers)
    len_index,    \* gen_params: len_index (indices whose length is passed)
    ptrSupplied,  \* gen_params: ptr.is_some()
    allocScript,  \* what the executor's allocator answers to its i-th call
    allocLog,     \* the buffers the allocator was called with, in call order
    runtime_vals, \* the Vec<RuntimeValue> gen_params returns
    ptr,          \* Shared Pointer Cell  (Rc<RefCell<u32>>)
    result_len,   \* Shared Length Cell   (Rc<RefCell<u32>>)
    output,       \* Shared Buffer Cell   (Rc<RefCell<Vec<u8>>>)
    res,          \* the guest's raw return value (Option<RuntimeValue>)
    memory,       \* guest linear memory after the guest function ran
    decoder,      \* the return decoder the call was made with
    result,       \* what the decoder returned
    memReads,     \* every memory.get the decoder made, in order
    cellLog       \* every write/read of a Shared Cell, in order

vars == <<pc, data, len_index, ptrSupplied, allocScript, allocLog, runtime_vals,
          ptr, result_len, output, res, memory, decoder, result, memReads, cellLog>>

\* ---------------------------------------------------------------- inputs
Buffers == {<<7>>, <<7, 8, 9>>}
AllocOk(u) == [ok |-> TRUE, off |-> u]
AllocErr == [ok |-> FALSE, off |-> U32(0, 0)]
\* offsets: 2 (a 4-byte read fits), 5 (it does not), 0xFFFFFFFC (negative as i32)
AllocAnswers == {AllocOk(U32(0, 2)), AllocOk(U32(0, 5)),
                 AllocOk(U32(Half - 1, Half - 4)), AllocErr}

\* the buffer lists of the whole-call specification: none, one, two buffers
CallLists == {<<>>, <<<<7>>>>, <<<<7>>, <<7, 8, 9>>>>}
DataLists == UNION {[1..n -> Buffers] : n \in 0..MaxBufs}

GuestReturns == {NoValue, [ty |-> "I64", v |-> 4], I32(-1), I32(0), I32(1), I32(4)}
Memories == [1..MemSize -> Byte]
Outputs == {<<>>, <<9, 9>>}

\* ---------------------------------------------------------------- gen_params
\* variant: the loop goes on to the remaining buffers after a failed allocation
AllocateAll(d, script) ==
    [ok |-> \A i \in 1..Len(d) : script[i].ok,
     offsets |-> [i \in 1..Len(d) |-> script[i].off],
     log |-> d]

\* lines 97-100: allocate each buffer in list order; `?` returns at the first Err
RECURSIVE AllocLoop(_, _, _, _, _)
AllocLoop(d, script, i, offsets, log) ==
    IF i > Len(d) THEN [ok |-> TRUE, offsets |-> offsets, log |-> log]
    ELSE IF ~script[i].ok
         THEN [ok |-> FALSE, offsets |-> offsets, log |-> Append(log, d[i])]
         ELSE AllocLoop(d, script, i + 1, Append(offsets, script[i].off),
                        Append(log, d[i]))

Allocate(d, script) == AllocLoop(d, script, 1, <<>>, <<>>)

\* lines 103-105: the pointer cell takes the offset of the last buffer
PtrWritten(supplied, offsets) == supplied /\ Len(offsets) >= 1

\* variant: the pointer cell takes the offset of the first buffer
PtrAfterEncodeFirst(supplied, offsets, old) ==
    IF PtrWritten(supplied, offsets) THEN offsets[1] ELSE old

PtrAfterEncode(supplied, offsets, old) ==
    IF PtrWritten(supplied, offsets) THEN offsets[Len(offsets)] ELSE old

\* variant: len_index taken as 1-based positions
RECURSIVE RuntimeValsOneBased(_, _, _, _)
RuntimeValsOneBased(d, lens, offsets, counter) ==
    IF counter >= Len(offsets) THEN <<>>
    ELSE <<I32(U32AsI32(offsets[counter + 1]))>>
         \o (IF counter + 1 \in lens
             THEN <<I32(UsizeAsI32(Len(d[counter + 1])))>> ELSE <<>>)
         \o RuntimeValsOneBased(d, lens, offsets, counter + 1)

\* lines 107-117: offset, then the length when the (0-based) index is in len_index
RECURSIVE RuntimeValsFrom(_, _, _, _)
RuntimeValsFrom(d, lens, offsets, counter) ==
    IF counter >= Len(offsets) THEN <<>>
    ELSE <<I32(U32AsI32(offsets[counter + 1]))>>
         \o (IF counter \in lens
             THEN <<I32(UsizeAsI32(Len(d[counter + 1])))>> ELSE <<>>)
         \o RuntimeValsFrom(d, lens, offsets, counter + 1)

RuntimeVals(d, lens, offsets) == RuntimeValsFrom(d, lens, offsets, 0)

GenParams ==
    /\ pc = "start"
    /\ LET a == Allocate(data, allocScript) IN
         /\ allocLog' = a.log
         /\ IF a.ok
            THEN /\ pc' = "encoded"
                 /\ ptr' = PtrAfterEncode(ptrSupplied, a.offsets, ptr)
                 /\ cellLog' = IF PtrWritten(ptrSupplied, a.offsets)
                               THEN Append(cellLog, Ev("ptr", "write", "encode"))
                               ELSE cellLog
                 /\ runtime_vals' = RuntimeVals(data, len_index, a.offsets)
            ELSE /\ pc' = "encode_err"
                 /\ UNCHANGED <<ptr, cellLog, runtime_vals>>
    /\ UNCHANGED <<data, len_index, ptrSupplied, allocScript, result_len, output,
                   res, memory, decoder, result, memReads>>

\* ---------------------------------------------------------------- call
\* lines 71-84: the executor runs the guest function on the encoded parameters and
\* hands its raw return value and its memory to the return decoder
GuestRun ==
    /\ pc = "encoded"
    /\ pc' = "returned"
    /\ res' \in GuestReturns
    /\ memory' \in Memories
    /\ UNCHANGED <<data, len_index, ptrSupplied, allocScript, allocLog, runtime_vals,
                   ptr, result_len, output, decoder, result, memReads, cellLog>>

\* ---------------------------------------------------------------- decoders
\* What a decoder does, as the record of its effects:
\*   result, the cells after it ran, its memory reads and its cell accesses.
Effects(r, out, rlen, reads, evs) ==
    [result |-> r, output |-> out, result_len |-> rlen, reads |-> reads, evs |-> evs]

\* lines 122-125
DecodeNone(rv, mem, p, out, rlen) == Effects(OkUnit, out, rlen, <<>>, <<>>)

\* variant: the copy reads at address 0 instead of the pointer cell's address
CopyFromZero(mem, p, out) ==
    LET len == U32FromNat(Len(out))
        g == MemGet(mem, U32(0, 0), len)
    IN [ok |-> g.ok,
        output |-> IF g.ok THEN g.bytes ELSE out,
        reads |-> <<Rd(U32(0, 0), len)>>,
        evs |-> <<Ev("output", "read", "decode"), Ev("ptr", "read", "decode")>>
                \o (IF g.ok THEN <<Ev("output", "write", "decode")>> ELSE <<>>)]

\* variant: the output buffer is zeroed before the read is attempted
CopyClearsFirst(mem, p, out) ==
    LET len == U32FromNat(Len(out))
        g == MemGet(mem, p, len)
    IN [ok |-> g.ok,
        output |-> IF g.ok THEN g.bytes ELSE [i \in 1..Len(out) |-> 0],
        reads |-> <<Rd(p, len)>>,
        evs |-> <<Ev("output", "read", "decode"), Ev("ptr", "read", "decode"),
                  Ev("output", "write", "decode")>>]

\* lines 131-139 and 162-167: output_b.copy_from_slice(memory.get(*ptr, len)?)
CopyToOutput(mem, p, out) ==
    LET len == U32FromNat(Len(out))
        g == MemGet(mem, p, len)
    IN [ok |-> g.ok,
        output |-> IF g.ok THEN g.bytes ELSE out,
        reads |-> <<Rd(p, len)>>,
        evs |-> <<Ev("output", "read", "decode"), Ev("ptr", "read", "decode")>>
                \o (IF g.ok THEN <<Ev("output", "write", "decode")>> ELSE <<>>)]

\* lines 126-142
DecodeNoneWriteBuffer(rv, mem, p, out, rlen) ==
    LET c == CopyToOutput(mem, p, out)
    IN Effects(IF c.ok THEN OkUnit ELSE ErrRuntime, c.output, rlen, c.reads, c.evs)

\* variant: a negative return value taken as "no result"
DecodeValueNoBufferSigned(rv, mem, p, out, rlen) ==
    IF rv.ty = "I32" /\ rv.v >= 0
    THEN Effects(OkScalar(I32AsU32(rv.v)), out, rlen, <<>>, <<>>)
    ELSE Effects(OkNone, out, rlen, <<>>, <<>>)

\* lines 143-152
DecodeValueNoBuffer(rv, mem, p, out, rlen) ==
    IF rv.ty = "I32"
    THEN Effects(OkScalar(I32AsU32(rv.v)), out, rlen, <<>>, <<>>)
    ELSE Effects(OkNone, out, rlen, <<>>, <<>>)

\* variant: the copy is made before the return value is looked at
DecodeValueWriteBufferEager(rv, mem, p, out, rlen) ==
    LET c == CopyToOutput(mem, p, out)
    IN IF ~c.ok THEN Effects(ErrRuntime, c.output, rlen, c.reads, c.evs)
       ELSE Effects(IF rv.ty = "I32" THEN OkScalar(I32AsU32(rv.v)) ELSE OkNone,
                    c.output, rlen, c.reads, c.evs)

\* lines 153-174
DecodeValueWriteBuffer(rv, mem, p, out, rlen) ==
    IF rv.ty = "I32"
    THEN LET c == CopyToOutput(mem, p, out)
         IN Effects(IF c.ok THEN OkScalar(I32AsU32(rv.v)) ELSE ErrRuntime,
                    c.output, rlen, c.reads, c.evs)
    ELSE Effects(OkNone, out, rlen, <<>>, <<Ev("output", "read", "decode")>>)

\* lines 175-201
DecodeBuffer(rv, mem, p, out, rlen) ==
    IF rv.ty = "I32"
    THEN LET four == U32FromNat(4)
             g == MemGet(mem, p, four)
         IN IF ~g.ok
            THEN \* line 184: .unwrap() on the failed read of the length prefix
                 Effects(Panic, out, rlen, <<Rd(p, four)>>,
                         <<Ev("ptr", "read", "decode")>>)
            ELSE LET n == U32FromLeBytes(g.bytes) IN
                 IF rv.v = 0
                 THEN Effects(OkBuf(<<>>), out, n, <<Rd(p, four)>>,
                              <<Ev("ptr", "read", "decode"),
                                Ev("len", "write", "decode")>>)
                 ELSE LET a == I32AsU32(rv.v)
                          b == MemGet(mem, a, n)
                      IN Effects(IF b.ok THEN OkBuf(b.bytes) ELSE ErrRuntime,
                                 out, n, <<Rd(p, four), Rd(a, n)>>,
                                 <<Ev("ptr", "read", "decode"),
                                   Ev("len", "write", "decode"),
                                   Ev("len", "read", "decode")>>)
    ELSE Effects(OkNone, out, rlen, <<>>, <<>>)

Apply(name, e) ==
    /\ pc = "returned"
    /\ pc' = "done"
    /\ decoder' = name
    /\ result' = e.result
    /\ output' = e.output
    /\ result_len' = e.result_len
    /\ memReads' = memReads \o e.reads
    /\ cellLog' = cellLog \o e.evs
    /\ UNCHANGED <<data, len_index, ptrSupplied, allocScript, allocLog, runtime_vals,
                   ptr, res, memory>>

return_none == Apply("return_none", DecodeNone(res, memory, ptr, output, result_len))

return_none_write_buffer ==
    Apply("return_none_write_buffer",
          DecodeNoneWriteBuffer(res, memory, ptr, output, result_len))

return_value_no_buffer ==
    Apply("return_value_no_buffer",
          DecodeValueNoBuffer(res, memory, ptr, output, result_len))

return_value_write_buffer ==
    Apply("return_value_write_buffer",
          DecodeValueWriteBuffer(res, memory, ptr, output, result_len))

return_buffer ==
    Apply("return_buffer", DecodeBuffer(res, memory, ptr, output, result_len))

\* ---------------------------------------------------------------- specifications
InitCommon ==
    /\ pc = "start"
    /\ allocScript \in [1..Len(data) -> AllocAnswers]
    /\ ptrSupplied \in BOOLEAN
    /\ allocLog = <<>>
    /\ runtime_vals = <<>>
    /\ result_len = U32(0, 0)
    /\ res = NoValue
    /\ memory = <<>>
    /\ decoder = "none yet"
    /\ result = Pending
    /\ memReads = <<>>
    /\ cellLog = <<>>

\* gen_params alone, on every buffer list, index set and allocator behaviour
InitEncode ==
    /\ data \in DataLists
    /\ len_index \in SUBSET (0..MaxBufs)
    /\ ptr \in {U32(0, 0), U32(0, 3)}
    /\ output = <<>>
    /\ InitCommon

NextEncode == GenParams

SpecEncode == InitEncode /\ [][NextEncode]_vars

\* one whole call: encode, run the guest, decode
InitCall ==
    /\ data \in CallLists
    /\ len_index = {}
    /\ ptr = U32(0, 0)
    /\ output \in Outputs
    /\ InitCommon

Next ==
    \/ GenParams
    \/ GuestRun
    \/ return_none
    \/ return_none_write_buffer
    \/ return_value_no_buffer
    \/ return_value_write_buffer
    \/ return_buffer

Spec == InitCall /\ [][Next]_vars

\* ---------------------------------------------------------------- properties
Done(name) == pc = "done" /\ decoder = name

\* the read of n bytes at the u32 address a lies inside guest memory
InMem(a, n) == a.hi = 0 /\ a.lo + n <= MemSize
Slice(a, n) == [i \in 1..n |-> memory[a.lo + i]]
IsOob(r) == ~(r.len.hi = 0 /\ InMem(r.off, r.len.lo))

\* the little-endian number in the 4 bytes at address a (a + 4 <= MemSize)
LePrefix(a) ==
    memory[a.lo + 1] + 256 * memory[a.lo + 2] + 65536 * memory[a.lo + 3]
    + 16777216 * memory[a.lo + 4]

\* C1: return_buffer on the guest return value I32(0) yields the empty buffer and
\* performs no guest-memory read at all, whatever the memory and the pointer cell.
C1_ZeroReturnReadsNothing ==
    (Done("return_buffer") /\ res = I32(0))
        => (result = OkBuf(<<>>) /\ memReads = <<>>)

\* C2: in return_buffer every out-of-bounds guest-memory access (the 4-byte
\* length-prefix read or the payload read) ends the decode with the Runtime error.
C2_OutOfBoundsIsRuntimeError ==
    (Done("return_buffer") /\ \E i \in DOMAIN memReads : IsOob(memReads[i]))
        => result = ErrRuntime

\* C3: return_buffer with guest return address A # 0, both reads in bounds and N
\* the little-endian u32 at the pointer cell's address: the result is exactly
\* memory[A .. A+N) and the Shared Length Cell holds N.
C3_LengthPrefixedBuffer ==
    (/\ Done("return_buffer")
     /\ res.ty = "I32" /\ res.v > 0
     /\ InMem(ptr, 4)
     /\ res.v + LePrefix(ptr) <= MemSize)
        => (/\ result = OkBuf(Slice(U32(0, res.v), LePrefix(ptr)))
            /\ result_len.hi * Half + result_len.lo = LePrefix(ptr))

C3_Witness ==
    /\ Done("return_buffer") /\ res = I32(1) /\ ptr = U32(0, 2)
    /\ result.kind = "Some" /\ Len(result.buf) = 2 /\ result.buf = <<1, 2>>
    /\ result_len = U32(0, 2)

\* position (1-based) of buffer i's offset (i 0-based) in the ABI value sequence
Pos(i) == i + 1 + Cardinality({j \in len_index : j < i})

\* each buffer's offset, in list order, followed by its length iff its index is in S
Layout ==
    \A i \in 0..(Len(data) - 1) :
        /\ Pos(i) <= Len(runtime_vals)
        /\ runtime_vals[Pos(i)].ty = "I32"
        /\ I32AsU32(runtime_vals[Pos(i)].v) = allocScript[i + 1].off
        /\ i \in len_index =>
              /\ Pos(i) + 1 <= Len(runtime_vals)
              /\ runtime_vals[Pos(i) + 1] = I32(Len(data[i + 1]))

\* C4 (as claimed): for ANY length-index set S, a successful gen_params yields
\* |L| + |S| ABI values: each buffer's offset followed by its length iff i \in S.
C4_SequenceLengthAnyIndexSet ==
    pc = "encoded"
        => (Len(runtime_vals) = Len(data) + Cardinality(len_index) /\ Layout)

\* C4 (amended): the sequence has |L| + |{i \in S : i < |L|}| values (indices that
\* name no buffer add nothing): each buffer's offset followed by its length iff
\* i \in S.
C4_SequenceLengthValidIndices ==
    pc = "encoded"
        => (/\ Len(runtime_vals)
                 = Len(data) + Cardinality({i \in len_index : i < Len(data)})
            /\ Layout)

C4_Witness ==
    /\ pc = "encoded" /\ Len(data) = 2 /\ len_index = {1, 3}
    /\ Len(runtime_vals) = 3 /\ runtime_vals[3] = I32(Len(data[2]))
    /\ runtime_vals[1].v < 0

FirstFail(k) == ~allocScript[k].ok /\ \A j \in 1..(k - 1) : allocScript[j].ok

\* C5: when the allocator fails on buffer k, gen_params ends with the error: the
\* allocator was called once for each of buffers 0..k in list order and never
\* after, no ABI sequence exists, and the pointer cell keeps its value.
C5_AllocFailureAborts ==
    [][\A k \in 1..Len(data) :
          (pc = "start" /\ FirstFail(k))
              => (/\ pc' = "encode_err"
                  /\ allocLog' = SubSeq(data, 1, k)
                  /\ runtime_vals' = <<>>
                  /\ ptr' = ptr
                  /\ cellLog' = cellLog)]_vars

C5_Witness ==
    /\ pc = "encode_err" /\ ptrSupplied /\ Len(data) = 3
    /\ allocScript[1].ok /\ ~allocScript[2].ok /\ allocScript[3].ok
    /\ allocLog = <<data[1], data[2]>> /\ data[1] # data[2]
    /\ ptr = U32(0, 3)

\* C6: with a pointer cell supplied and a non-empty list, after a successful
\* encode the cell holds the offset the allocator returned for the LAST buffer.
C6_PointerIsLastOffset ==
    (pc = "encoded" /\ ptrSupplied /\ Len(data) >= 1)
        => ptr = allocScript[Len(data)].off

C6_Witness ==
    /\ pc = "encoded" /\ ptrSupplied /\ Len(data) = 2
    /\ allocScript[1].off # allocScript[2].off
    /\ ptr = allocScript[2].off
    /\ Len(runtime_vals) = 2

\* C7: return_value_write_buffer on I32(r) and return_none_write_buffer on any
\* return value: if the read of len(output) bytes at the pointer cell's address is
\* in bounds, output becomes exactly those bytes (and the scalar is r); otherwise
\* the decode fails with the Runtime error.
C7_BufferCopy ==
    /\ (Done("return_value_write_buffer") /\ res.ty = "I32") =>
          IF InMem(ptr, Len(output))
          THEN /\ output = Slice(ptr, Len(output))
               /\ result.kind = "Some"
               /\ U32AsI32(result.scalar) = res.v
          ELSE result = ErrRuntime
    /\ Done("return_none_write_buffer") =>
          IF InMem(ptr, Len(output))
          THEN output = Slice(ptr, Len(output)) /\ result = OkUnit
          ELSE result = ErrRuntime

C7_Witness ==
    /\ Done("return_none_write_buffer") /\ res = NoValue /\ ptr = U32(0, 2)
    /\ Len(output) = 2 /\ output = <<memory[3], memory[4]>> /\ output # <<0, 0>>
    /\ result = OkUnit

\* C8: the decoders that expect a scalar yield "no result" (never an error) on an
\* absent or non-I32 return value; return_value_no_buffer on I32(r) yields r as
\* unsigned, so a negative r is a result.
C8_NoResultIsNotAnError ==
    /\ (/\ pc = "done"
        /\ decoder \in {"return_value_no_buffer", "return_value_write_buffer",
                        "return_buffer"}
        /\ res.ty # "I32") => result = OkNone
    /\ (Done("return_value_no_buffer") /\ res.ty = "I32") =>
          /\ result.kind = "Some"
          /\ result.scalar.lo = res.v % Half
          /\ result.scalar.hi = (IF res.v < 0 THEN Half ELSE 0) + (res.v \div Half)

C8_Witness ==
    /\ Done("return_value_no_buffer") /\ res = I32(-1)
    /\ result = OkScalar(U32(Half - 1, Half - 1))

Count(cell, op) ==
    Cardinality({i \in DOMAIN cellLog : cellLog[i].cell = cell /\ cellLog[i].op = op})

UsesCells == {"return_none_write_buffer", "return_value_write_buffer", "return_buffer"}
CellsOf(name) == IF name = "return_buffer" THEN {"ptr", "len"} ELSE {"ptr", "output"}

PtrWriteBeforeRead ==
    /\ \A i \in DOMAIN cellLog :
          cellLog[i].cell = "ptr" =>
              (cellLog[i].op = "write" <=> cellLog[i].phase = "encode")
    /\ \A i, j \in DOMAIN cellLog :
          (/\ cellLog[i].cell = "ptr" /\ cellLog[i].op = "write"
           /\ cellLog[j].cell = "ptr" /\ cellLog[j].op = "read") => i < j

\* C9 (as claimed): in every call that uses a Shared Cell, each cell is written
\* exactly once and read exactly once, the pointer cell being written in the
\* encode phase strictly before its read in the decode phase.
C9_CellsExactlyOnce ==
    (pc = "done" /\ decoder \in UsesCells)
        => (/\ \A c \in CellsOf(decoder) :
                  Count(c, "write") = 1 /\ Count(c, "read") = 1
            /\ PtrWriteBeforeRead)

\* C9 (amended): each cell is written AT MOST once and read AT MOST once; the
\* pointer cell is written only in the encode phase and read only in the decode
\* phase, any write before any read; it is written exactly once iff a cell was
\* supplied and the list is non-empty, and read exactly once iff the decoder is
\* return_none_write_buffer or the guest returned a 32-bit integer.
C9_CellsAtMostOnce ==
    (pc = "done" /\ decoder \in UsesCells)
        => (/\ \A c \in CellsOf(decoder) :
                  Count(c, "write") <= 1 /\ Count(c, "read") <= 1
            /\ PtrWriteBeforeRead
            /\ Count("ptr", "write") = 1 <=> (ptrSupplied /\ Len(data) >= 1)
            /\ Count("ptr", "read") = 1
                  <=> (decoder = "return_none_write_buffer" \/ res.ty = "I32"))

C9_Witness ==
    /\ Done("return_buffer") /\ res = I32(4) /\ ptrSupplied /\ Len(data) = 1
    /\ cellLog = <<Ev("ptr", "write", "encode"), Ev("ptr", "read", "decode"),
                   Ev("len", "write", "decode"), Ev("len", "read", "decode")>>

\* C10: when return_value_write_buffer or return_none_write_buffer ends with the
\* Runtime error, or return_value_write_buffer with "no result", the output
\* buffer keeps its bytes (and in the "no result" case no memory is read).
C10_OutputUntouchedOnFailure ==
    [][(/\ pc = "returned" /\ pc' = "done"
        /\ decoder' \in {"return_value_write_buffer", "return_none_write_buffer"}
        /\ result'.kind \in {"Runtime", "None"})
          => (/\ output' = output
              /\ result'.kind = "None" => memReads' = <<>>)]_vars

C10_Witness ==
    /\ Done("return_value_write_buffer") /\ res = I32(4)
    /\ result = ErrRuntime /\ output = <<9, 9>> /\ memReads # <<>>

====
